---- MODULE Spec2Model ----
(***************************************************************************)
(* pleme-middleware-rate-limit: the sliding-window request limiter         *)
(* (src/limiter.rs) and the login limiter with account lockout             *)
(* (src/login.rs), both configured by RateLimitConfig (src/config.rs).     *)
(*                                                                         *)
(* Time is SystemTime::now() in whole seconds since UNIX_EPOCH, a u64: the *)
(* model's clock starts at 0 and never decreases.  Every handler takes the *)
(* tokio Mutex over its map in its first statement and holds it to its     *)
(* return, so in Spec a handler is one atomic action; SpecConc splits      *)
(* check_rate_limit into its statements to check that the lock is what     *)
(* makes it so.                                                            *)
(***************************************************************************)
EXTENDS Integers, Sequences, FiniteSets, TLC

(* ------------------------------ bounds -------------------------------- *)
\* the clock runs from 0 to MaxTime
MaxTime == 3
\* rate_window_secs is drawn from 0..MaxWindow
MaxWindow == 2
\* max_requests_per_window and max_login_attempts are drawn from 0..MaxLimit
MaxLimit == 2
\* lockout_duration_secs is drawn from 0..MaxLockout
MaxLockout == 2
\* check_rate_limit calls recorded in the log
MaxLog == 4
\* failed attempts one identifier's record may hold
MaxAttempts == 2
\* concurrent callers of SpecConc
NumWorkers == 3

Keys == {"k1", "k2"}
Workers == 1..NumWorkers

(* ------------------------- Option<u64>, Result ------------------------ *)
None == << >>
Some(x) == << x >>
IsSome(o) == Len(o) = 1
Unwrap(o) == o[1]

Ok == [tag |-> "Ok", val |-> << >>]
Exceeded(max, window) == [tag |-> "Exceeded", val |-> << max, window >>]
AccountLocked(until) == [tag |-> "AccountLocked", val |-> << until >>]

(* ------------------------------ state --------------------------------- *)
VARIABLES
    component,          \* which struct was constructed: RateLimiter or LoginRateLimiter
    config,             \* RateLimitConfig, immutable after new()
    clock,              \* SystemTime::now() in seconds since UNIX_EPOCH
    attempts,           \* RateLimiter.attempts: HashMap<String, Vec<u64>>
    login_attempts,     \* LoginRateLimiter.login_attempts: HashMap<String, LoginAttemptInfo>
    last,               \* the call that returned last: op, key, result
    log,                \* history: the check_rate_limit calls that returned, in order
    fails,              \* history: per identifier, the times of the failures recorded
                        \* while it had no lockout deadline, since its last clear or lock
    expired,            \* history: the identifiers a check has released from a lockout
    recorded,           \* history: the identifiers a failure was recorded for since
                        \* the last check_login_attempt or clear_attempts on them
    nosweep,            \* the same limiter, given the same calls except cleanup
    nosweep_res,        \* what the last call returned on nosweep
    unseen,             \* the same limiter, but every cleared identifier forgotten
    unseen_res,         \* what the last call returned on unseen
    cleared,            \* per identifier: was clear_attempts called on it, and on a lockout
    mutex,              \* SpecConc: the holder of the tokio Mutex over attempts, 0 when free
    pc,                 \* SpecConc: where each caller stands in check_rate_limit
    wkey,               \* SpecConc: each caller's key
    wnow,               \* SpecConc: each caller's local now
    wres                \* SpecConc: what each caller's call returned

core == << component, config, clock, attempts, login_attempts, last, log, fails, expired, recorded >>
shadows == << nosweep, nosweep_res, unseen, unseen_res, cleared >>
conc == << mutex, pc, wkey, wnow, wres >>
vars == << core, shadows, conc >>

(* ------------------------- HashMap primitives ------------------------- *)
EmptyMap == [k \in {} |-> << >>]
Put(m, k, v) == [x \in (DOMAIN m) \cup {k} |-> IF x = k THEN v ELSE m[x]]
Remove(m, k) == [x \in (DOMAIN m) \ {k} |-> m[x]]

(* ------------------------- window arithmetic -------------------------- *)
\* u64::saturating_sub
saturating_sub(a, b) == IF a >= b THEN a - b ELSE 0

window_start(now) == saturating_sub(now, config.rate_window_secs)

\* mutant: the timestamp on the window's boundary is kept
retain_keeps_boundary(list, ws) == SelectSeq(list, LAMBDA t : t >= ws)

\* Vec::retain(|&t| t > window_start)
retain(list, ws) == SelectSeq(list, LAMBDA t : t > ws)

(* ---------------------------- RateLimiter ----------------------------- *)
\* attempts.entry(key).or_insert_with(Vec::new)
entry(m, key) == IF key \in DOMAIN m THEN m[key] ELSE << >>

\* lines 47-51: fetch or create the key's list and prune it
prune_key(m, key, now) == Put(m, key, retain(entry(m, key), window_start(now)))

\* mutant: the limit test is off by one
limit_reached_above(list) == Len(list) > config.max_requests_per_window

\* line 54: the limit test on the pruned list
limit_reached(list) == Len(list) >= config.max_requests_per_window

\* line 64: attempt_list.push(now)
push_key(m, key, now) == Put(m, key, Append(entry(m, key), now))

\* lines 40-66: check_rate_limit once the lock is taken
check_rate_locked(m, key, now) ==
    LET pruned == prune_key(m, key, now) IN
    IF limit_reached(pruned[key])
    THEN [map |-> pruned,
          res |-> Exceeded(config.max_requests_per_window, config.rate_window_secs)]
    ELSE [map |-> push_key(pruned, key, now), res |-> Ok]

\* the whole of check_rate_limit: the map after, the result
check_rate_limit(m, key, now) ==
    IF ~config.enabled
    THEN [map |-> m, res |-> Ok]
    ELSE check_rate_locked(m, key, now)

\* mutant: the sweep prunes the lists and keeps the keys whose list is empty
cleanup_keeps_empty(m, now) == [k \in DOMAIN m |-> retain(m[k], window_start(now))]

\* RateLimiter::cleanup
cleanup(m, now) ==
    LET pruned == [k \in DOMAIN m |-> retain(m[k], window_start(now))] IN
    [k \in {x \in DOMAIN m : pruned[x] # << >>} |-> pruned[k]]

(* -------------------------- LoginRateLimiter -------------------------- *)
\* attempts.entry(identifier).or_insert(LoginAttemptInfo { attempts: vec![], locked_until: None })
login_entry(m, id) ==
    IF id \in DOMAIN m THEN m[id] ELSE [attempts |-> << >>, locked_until |-> None]

\* mutant: an expired lockout is cleared, the attempt history is kept
expire_lockout_keeps_attempts(info, now) ==
    IF IsSome(info.locked_until)
    THEN IF now < Unwrap(info.locked_until)
         THEN None
         ELSE Some([info EXCEPT !.locked_until = None])
    ELSE Some(info)

\* lines 52-63: Some(info) to go on with, or None when the account is still locked
expire_lockout(info, now) ==
    IF IsSome(info.locked_until)
    THEN IF now < Unwrap(info.locked_until)
         THEN None
         ELSE Some([attempts |-> << >>, locked_until |-> None])
    ELSE Some(info)

\* line 70: the lockout test on the pruned list
should_lock(list) == Len(list) >= config.max_login_attempts

\* mutant: an admitted check is counted as an attempt, as check_rate_limit does
prune_and_decide_counts_check(info, now) ==
    LET pruned == [info EXCEPT !.attempts = retain(info.attempts, window_start(now))] IN
    IF should_lock(pruned.attempts)
    THEN [info |-> [pruned EXCEPT !.locked_until = Some(now + config.lockout_duration_secs)],
          res |-> AccountLocked(now + config.lockout_duration_secs)]
    ELSE [info |-> [pruned EXCEPT !.attempts = Append(@, now)], res |-> Ok]

\* lines 65-76 on an entry that is not locked
prune_and_decide(info, now) ==
    LET pruned == [info EXCEPT !.attempts = retain(info.attempts, window_start(now))] IN
    IF should_lock(pruned.attempts)
    THEN [info |-> [pruned EXCEPT !.locked_until = Some(now + config.lockout_duration_secs)],
          res |-> AccountLocked(now + config.lockout_duration_secs)]
    ELSE [info |-> pruned, res |-> Ok]

\* mutant: a check made during a lockout starts the lockout anew
check_login_locked_extends(m, id, now) ==
    LET info == login_entry(m, id)
        open == expire_lockout(info, now) IN
    IF ~IsSome(open)
    THEN [map |-> Put(m, id, [info EXCEPT !.locked_until =
                                  Some(now + config.lockout_duration_secs)]),
          res |-> AccountLocked(now + config.lockout_duration_secs)]
    ELSE LET d == prune_and_decide(Unwrap(open), now) IN
         [map |-> Put(m, id, d.info), res |-> d.res]

\* lines 39-76: check_login_attempt once the lock is taken
check_login_locked(m, id, now) ==
    LET info == login_entry(m, id)
        open == expire_lockout(info, now) IN
    IF ~IsSome(open)
    THEN [map |-> Put(m, id, info), res |-> AccountLocked(Unwrap(info.locked_until))]
    ELSE LET d == prune_and_decide(Unwrap(open), now) IN
         [map |-> Put(m, id, d.info), res |-> d.res]

\* mutant: the enabled switch is not consulted
check_login_attempt_ignores_switch(m, id, now) == check_login_locked(m, id, now)

\* the whole of check_login_attempt: the map after, the result
check_login_attempt(m, id, now) ==
    IF ~config.enabled
    THEN [map |-> m, res |-> Ok]
    ELSE check_login_locked(m, id, now)

\* record_failed_attempt: no enabled test, no lockout test
record_failed_attempt(m, id, now) ==
    LET info == login_entry(m, id) IN
    Put(m, id, [info EXCEPT !.attempts = Append(info.attempts, now)])

\* mutant: the attempts are emptied, the record and its lockout stay
clear_attempts_keeps_lockout(m, id) ==
    IF id \in DOMAIN m THEN Put(m, id, [m[id] EXCEPT !.attempts = << >>]) ELSE m

\* clear_attempts: attempts.remove(identifier)
clear_attempts(m, id) == Remove(m, id)

\* mutant: the closure tests for emptiness before it prunes
login_cleanup_entry_tests_first(info, now) ==
    IF IsSome(info.locked_until) /\ now < Unwrap(info.locked_until)
    THEN Some(info)
    ELSE IF info.attempts # << >>
         THEN Some([info EXCEPT !.attempts = retain(info.attempts, window_start(now))])
         ELSE None

\* the closure of LoginRateLimiter::cleanup: Some(info) to keep, None to drop
login_cleanup_entry(info, now) ==
    IF IsSome(info.locked_until) /\ now < Unwrap(info.locked_until)
    THEN Some(info)
    ELSE LET pruned == retain(info.attempts, window_start(now)) IN
         IF pruned # << >>
         THEN Some([info EXCEPT !.attempts = pruned])
         ELSE None

\* mutant: the sweep prunes the attempts of locked identifiers too
login_cleanup_prunes_locked(m, now) ==
    LET swept == [id \in DOMAIN m |->
                    IF IsSome(m[id].locked_until) /\ now < Unwrap(m[id].locked_until)
                    THEN Some([m[id] EXCEPT !.attempts = retain(@, window_start(now))])
                    ELSE login_cleanup_entry(m[id], now)] IN
    [id \in {x \in DOMAIN m : IsSome(swept[x])} |-> Unwrap(swept[id])]

\* LoginRateLimiter::cleanup
login_cleanup(m, now) ==
    [id \in {x \in DOMAIN m : IsSome(login_cleanup_entry(m[x], now))} |->
        Unwrap(login_cleanup_entry(m[id], now))]

(* ------------------------------ Init ---------------------------------- *)
Configs ==
    [enabled : BOOLEAN,
     max_requests_per_window : 0..MaxLimit,
     rate_window_secs : 0..MaxWindow,
     max_login_attempts : 0..MaxLimit,
     lockout_duration_secs : 0..MaxLockout]

\* RateLimiter::new(config): no method of RateLimiter reads the login
\* parameters, which are left at their least values
InitRateLimiter ==
    /\ component = "RateLimiter"
    /\ config \in {c \in Configs : c.max_login_attempts = 0 /\ c.lockout_duration_secs = 0}

\* LoginRateLimiter::new(config): no method of LoginRateLimiter reads
\* max_requests_per_window, which is left at its least value
InitLoginRateLimiter ==
    /\ component = "LoginRateLimiter"
    /\ config \in {c \in Configs : c.max_requests_per_window = 0}

Init ==
    /\ InitRateLimiter \/ InitLoginRateLimiter
    /\ clock = 0
    /\ attempts = EmptyMap
    /\ login_attempts = EmptyMap
    /\ last = [op |-> "new", key |-> "", res |-> Ok]
    /\ log = << >>
    /\ fails = [id \in Keys |-> << >>]
    /\ expired = {}
    /\ recorded = {}
    /\ nosweep = EmptyMap
    /\ nosweep_res = Ok
    /\ unseen = EmptyMap
    /\ unseen_res = Ok
    /\ cleared = [id \in Keys |-> "no"]
    /\ mutex = 0
    /\ pc = [w \in Workers |-> "idle"]
    /\ wkey = [w \in Workers |-> ""]
    /\ wnow = [w \in Workers |-> 0]
    /\ wres = [w \in Workers |-> Ok]

(* ----------------------------- actions -------------------------------- *)
Returned(op, key, res) == [op |-> op, key |-> key, res |-> res]

\* the identifier's record holds a lockout deadline, passed or not
HasDeadline(m, id) == id \in DOMAIN m /\ IsSome(m[id].locked_until)

\* Locked: the deadline is in the future
IsLocked(m, id, now) == HasDeadline(m, id) /\ now < Unwrap(m[id].locked_until)

Tick ==
    /\ clock < MaxTime
    /\ clock' = clock + 1
    /\ UNCHANGED << component, config, attempts, login_attempts, last, log, fails, expired, recorded >>

CheckRateLimit(key) ==
    /\ component = "RateLimiter"
    /\ Len(log) < MaxLog
    /\ LET r == check_rate_limit(attempts, key, clock) IN
       /\ attempts' = r.map
       /\ last' = Returned("check_rate_limit", key, r.res)
       /\ log' = Append(log, [key |-> key, now |-> clock, res |-> r.res])
    /\ UNCHANGED << component, config, clock, login_attempts, fails, expired, recorded >>

Cleanup ==
    /\ component = "RateLimiter"
    /\ attempts' = cleanup(attempts, clock)
    /\ last' = Returned("cleanup", "", Ok)
    /\ UNCHANGED << component, config, clock, login_attempts, log, fails, expired, recorded >>

CheckLoginAttempt(id) ==
    /\ component = "LoginRateLimiter"
    /\ LET r == check_login_attempt(login_attempts, id, clock) IN
       /\ login_attempts' = r.map
       /\ last' = Returned("check_login_attempt", id, r.res)
    /\ UNCHANGED << component, config, clock, attempts, log >>

RecordFailedAttempt(id) ==
    /\ component = "LoginRateLimiter"
    /\ Len(login_entry(login_attempts, id).attempts) < MaxAttempts
    /\ Len(login_entry(nosweep, id).attempts) < MaxAttempts
    /\ Len(login_entry(unseen, id).attempts) < MaxAttempts
    /\ login_attempts' = record_failed_attempt(login_attempts, id, clock)
    /\ last' = Returned("record_failed_attempt", id, Ok)
    /\ UNCHANGED << component, config, clock, attempts, log >>

ClearAttempts(id) ==
    /\ component = "LoginRateLimiter"
    /\ login_attempts' = clear_attempts(login_attempts, id)
    /\ last' = Returned("clear_attempts", id, Ok)
    /\ UNCHANGED << component, config, clock, attempts, log >>

LoginCleanup ==
    /\ component = "LoginRateLimiter"
    /\ login_attempts' = login_cleanup(login_attempts, clock)
    /\ last' = Returned("login_cleanup", "", Ok)
    /\ UNCHANGED << component, config, clock, attempts, log, fails, expired, recorded >>

(* the history of the login calls on each identifier, kept beside them:
   fails[id] is the times of the failures recorded since the identifier was
   last locked or cleared while it held no deadline; expired is the
   identifiers whose lockout a check has cleared since they were last cleared *)
HistCheckLoginAttempt(id) ==
    LET r == check_login_attempt(login_attempts, id, clock) IN
    /\ fails' = IF r.res.tag = "AccountLocked" THEN [fails EXCEPT ![id] = << >>] ELSE fails
    /\ expired' = IF HasDeadline(login_attempts, id) /\ ~HasDeadline(r.map, id)
                  THEN expired \cup {id} ELSE expired
    /\ recorded' = recorded \ {id}

HistRecordFailedAttempt(id) ==
    /\ Len(fails[id]) < MaxAttempts
    /\ fails' = IF HasDeadline(login_attempts, id) THEN fails
                ELSE [fails EXCEPT ![id] = Append(@, clock)]
    /\ recorded' = recorded \cup {id}
    /\ UNCHANGED expired

HistClearAttempts(id) ==
    /\ fails' = [fails EXCEPT ![id] = << >>]
    /\ expired' = expired \ {id}
    /\ recorded' = recorded \ {id}

NoHist == UNCHANGED << fails, expired, recorded >>

(* Spec: the limiter alone; the shadow limiters stay as constructed *)
Next ==
    \/ Tick /\ UNCHANGED << shadows, conc >>
    \/ \E key \in Keys : CheckRateLimit(key) /\ UNCHANGED << shadows, conc >>
    \/ Cleanup /\ UNCHANGED << shadows, conc >>
    \/ \E id \in Keys : CheckLoginAttempt(id) /\ HistCheckLoginAttempt(id)
                          /\ UNCHANGED << shadows, conc >>
    \/ \E id \in Keys : RecordFailedAttempt(id) /\ HistRecordFailedAttempt(id)
                          /\ UNCHANGED << shadows, conc >>
    \/ \E id \in Keys : ClearAttempts(id) /\ HistClearAttempts(id)
                          /\ UNCHANGED << shadows, conc >>
    \/ LoginCleanup /\ UNCHANGED << shadows, conc >>

Spec == Init /\ [][Next]_vars

(* ------------- SpecNoSweep: beside a limiter that is never swept ------ *)
\* nosweep is given every call the limiter is given, except the cleanups
NoSweepCheckRateLimit(key) ==
    LET n == check_rate_limit(nosweep, key, clock) IN
    /\ nosweep' = n.map
    /\ nosweep_res' = n.res
    /\ UNCHANGED << unseen, unseen_res, cleared >>

NoSweepCheckLoginAttempt(id) ==
    LET n == check_login_attempt(nosweep, id, clock) IN
    /\ nosweep' = n.map
    /\ nosweep_res' = n.res
    /\ UNCHANGED << unseen, unseen_res, cleared >>

NoSweepRecordFailedAttempt(id) ==
    /\ nosweep' = record_failed_attempt(nosweep, id, clock)
    /\ UNCHANGED << nosweep_res, unseen, unseen_res, cleared >>

NoSweepClearAttempts(id) ==
    /\ nosweep' = clear_attempts(nosweep, id)
    /\ UNCHANGED << nosweep_res, unseen, unseen_res, cleared >>

NextNoSweep ==
    \/ Tick /\ UNCHANGED << shadows, conc >>
    \/ \E key \in Keys : CheckRateLimit(key) /\ NoSweepCheckRateLimit(key) /\ UNCHANGED conc
    \/ Cleanup /\ UNCHANGED << shadows, conc >>
    \/ \E id \in Keys : CheckLoginAttempt(id) /\ NoSweepCheckLoginAttempt(id) /\ NoHist /\ UNCHANGED conc
    \/ \E id \in Keys : RecordFailedAttempt(id) /\ NoSweepRecordFailedAttempt(id) /\ NoHist /\ UNCHANGED conc
    \/ \E id \in Keys : ClearAttempts(id) /\ NoSweepClearAttempts(id) /\ NoHist /\ UNCHANGED conc
    \/ LoginCleanup /\ UNCHANGED << shadows, conc >>

SpecNoSweep == Init /\ [][NextNoSweep]_vars

(* ------ SpecUnseen: beside a limiter that never saw the cleared ids ---- *)
\* unseen is given every call the limiter is given; where the limiter is told
\* to clear an identifier, unseen is made to hold nothing of it
UnseenCheckLoginAttempt(id) ==
    LET u == check_login_attempt(unseen, id, clock) IN
    /\ unseen' = u.map
    /\ unseen_res' = u.res
    /\ UNCHANGED << nosweep, nosweep_res, cleared >>

UnseenRecordFailedAttempt(id) ==
    /\ unseen' = record_failed_attempt(unseen, id, clock)
    /\ UNCHANGED << nosweep, nosweep_res, unseen_res, cleared >>

UnseenForget(id) ==
    /\ unseen' = [x \in (DOMAIN unseen) \ {id} |-> unseen[x]]
    /\ cleared' = [cleared EXCEPT ![id] =
            IF @ = "locked" \/ IsLocked(login_attempts, id, clock) THEN "locked" ELSE "yes"]
    /\ UNCHANGED << nosweep, nosweep_res, unseen_res >>

UnseenLoginCleanup ==
    /\ unseen' = login_cleanup(unseen, clock)
    /\ UNCHANGED << nosweep, nosweep_res, unseen_res, cleared >>

NextUnseen ==
    \/ Tick /\ UNCHANGED << shadows, conc >>
    \/ \E id \in Keys : CheckLoginAttempt(id) /\ UnseenCheckLoginAttempt(id) /\ NoHist /\ UNCHANGED conc
    \/ \E id \in Keys : RecordFailedAttempt(id) /\ UnseenRecordFailedAttempt(id) /\ NoHist /\ UNCHANGED conc
    \/ \E id \in Keys : ClearAttempts(id) /\ UnseenForget(id) /\ NoHist /\ UNCHANGED conc
    \/ LoginCleanup /\ UnseenLoginCleanup /\ UNCHANGED conc

InitUnseen == Init /\ component = "LoginRateLimiter"

SpecUnseen == InitUnseen /\ [][NextUnseen]_vars

(* ------ SpecConc: concurrent callers of check_rate_limit, by statement -- *)
\* tokio::sync::Mutex: lock().await returns once no other task holds the guard
MutexFree == mutex = 0

\* lines 35-38: the call; a disabled limiter returns before it takes the lock
ConcCall(w, key) ==
    /\ pc[w] = "idle"
    /\ wkey' = [wkey EXCEPT ![w] = key]
    /\ pc' = [pc EXCEPT ![w] = IF config.enabled THEN "lock" ELSE "done"]
    /\ UNCHANGED << core, shadows, mutex, wnow, wres >>

\* lines 40-44: take the lock, then read the clock
ConcLock(w) ==
    /\ pc[w] = "lock"
    /\ MutexFree
    /\ mutex' = w
    /\ wnow' = [wnow EXCEPT ![w] = clock]
    /\ pc' = [pc EXCEPT ![w] = "prune"]
    /\ UNCHANGED << core, shadows, wkey, wres >>

\* lines 47-51: fetch or create the list and prune it
ConcPrune(w) ==
    /\ pc[w] = "prune"
    /\ attempts' = prune_key(attempts, wkey[w], wnow[w])
    /\ pc' = [pc EXCEPT ![w] = "test"]
    /\ UNCHANGED << component, config, clock, login_attempts, last, log, fails, expired, recorded >>
    /\ UNCHANGED << shadows, mutex, wkey, wnow, wres >>

\* lines 54-61: the limit test; on Exceeded the guard is dropped with the return
ConcTest(w) ==
    /\ pc[w] = "test"
    /\ IF limit_reached(entry(attempts, wkey[w]))
       THEN /\ wres' = [wres EXCEPT ![w] =
                   Exceeded(config.max_requests_per_window, config.rate_window_secs)]
            /\ mutex' = 0
            /\ pc' = [pc EXCEPT ![w] = "done"]
       ELSE /\ pc' = [pc EXCEPT ![w] = "push"]
            /\ UNCHANGED << mutex, wres >>
    /\ UNCHANGED << core, shadows, wkey, wnow >>

\* lines 64-66: record the attempt and return Ok, dropping the guard
ConcPush(w) ==
    /\ pc[w] = "push"
    /\ attempts' = push_key(attempts, wkey[w], wnow[w])
    /\ wres' = [wres EXCEPT ![w] = Ok]
    /\ mutex' = 0
    /\ pc' = [pc EXCEPT ![w] = "done"]
    /\ UNCHANGED << component, config, clock, login_attempts, last, log, fails, expired, recorded >>
    /\ UNCHANGED << shadows, wkey, wnow >>

\* cleanup holds the same lock from its first statement to its return
ConcCleanup ==
    /\ MutexFree
    /\ Cleanup
    /\ UNCHANGED << shadows, conc >>

NextConc ==
    \/ Tick /\ UNCHANGED << shadows, conc >>
    \/ \E w \in Workers : \E key \in Keys : ConcCall(w, key)
    \/ \E w \in Workers : ConcLock(w)
    \/ \E w \in Workers : ConcPrune(w)
    \/ \E w \in Workers : ConcTest(w)
    \/ \E w \in Workers : ConcPush(w)
    \/ ConcCleanup

InitConc == Init /\ component = "RateLimiter"

SpecConc == InitConc /\ [][NextConc]_vars

(* --- SpecFlood: concurrent logins, each check, verify, record a failure -- *)
\* a caller's check_login_attempt(id); the handler holds the lock from its
\* first statement to its return; an admitted caller goes on to verify the
\* credentials, with the lock released
FloodCheck(w, id) ==
    /\ pc[w] = "idle"
    /\ LET r == check_login_attempt(login_attempts, id, clock) IN
       /\ login_attempts' = r.map
       /\ last' = Returned("check_login_attempt", id, r.res)
       /\ wres' = [wres EXCEPT ![w] = r.res]
       /\ pc' = [pc EXCEPT ![w] = IF r.res = Ok THEN "verify" ELSE "done"]
    /\ wkey' = [wkey EXCEPT ![w] = id]
    /\ wnow' = [wnow EXCEPT ![w] = clock]
    /\ UNCHANGED << component, config, clock, attempts, log, fails, expired, recorded >>
    /\ UNCHANGED << shadows, mutex >>

\* the credentials were wrong: the caller's record_failed_attempt(id)
FloodRecord(w) ==
    /\ pc[w] = "verify"
    /\ login_attempts' = record_failed_attempt(login_attempts, wkey[w], clock)
    /\ last' = Returned("record_failed_attempt", wkey[w], Ok)
    /\ pc' = [pc EXCEPT ![w] = "done"]
    /\ UNCHANGED << component, config, clock, attempts, log, fails, expired, recorded >>
    /\ UNCHANGED << shadows, mutex, wkey, wnow, wres >>

NextFlood ==
    \/ Tick /\ UNCHANGED << shadows, conc >>
    \/ \E w \in Workers : \E id \in Keys : FloodCheck(w, id)
    \/ \E w \in Workers : FloodRecord(w)

InitFlood == Init /\ component = "LoginRateLimiter"

SpecFlood == InitFlood /\ [][NextFlood]_vars

(* --- SpecSweep: the calls stop, the clock and the sweeps go on --------- *)
Max(a, b) == IF a >= b THEN a ELSE b

\* the last clock value at which a check, a failure record or a clear is made;
\* the clock then runs on for a lockout and a window
LastCall == MaxTime - Max(MaxLockout, MaxWindow)

Quiet == clock > LastCall

SweepTick == Tick /\ UNCHANGED << shadows, conc >>

SweepCleanup == Cleanup /\ UNCHANGED << shadows, conc >>

SweepLoginCleanup == LoginCleanup /\ UNCHANGED << shadows, conc >>

\* the calls of NextNoSweep, made until LastCall; the sweeps at any time
NextSweep ==
    \/ SweepTick
    \/ SweepCleanup
    \/ SweepLoginCleanup
    \/ \E key \in Keys :
          ~Quiet /\ CheckRateLimit(key) /\ NoSweepCheckRateLimit(key) /\ UNCHANGED conc
    \/ \E id \in Keys :
          ~Quiet /\ CheckLoginAttempt(id) /\ NoSweepCheckLoginAttempt(id) /\ NoHist
                 /\ UNCHANGED conc
    \/ \E id \in Keys :
          ~Quiet /\ RecordFailedAttempt(id) /\ NoSweepRecordFailedAttempt(id) /\ NoHist
                 /\ UNCHANGED conc
    \/ \E id \in Keys :
          ~Quiet /\ ClearAttempts(id) /\ NoSweepClearAttempts(id) /\ NoHist
                 /\ UNCHANGED conc

\* the clock keeps advancing and each sweep keeps being invoked
SpecSweep ==
    /\ Init
    /\ [][NextSweep]_vars
    /\ WF_vars(SweepTick)
    /\ WF_vars(SweepCleanup)
    /\ WF_vars(SweepLoginCleanup)

(* ===================== properties of the request limiter ============== *)
\* the check_rate_limit calls on one key, in the order they returned
KeyLog(key) == SelectSeq(log, LAMBDA e : e.key = key)

\* every earlier request of the list has left the window when request a is made
FreshAt(L, a) == \A j \in 1..(a - 1) : L[j].now + config.rate_window_secs <= L[a].now

\* requests a..i of the list lie within one window
OneWindow(L, a, i) == L[i].now - L[a].now < config.rate_window_secs

Successes(L, a, i) == Cardinality({j \in a..i : L[j].res = Ok})

\* C1: with the limiter enabled, of the requests made on one key within one
\* window, the N-th succeeds for every N <= max_requests_per_window and the
\* (max_requests_per_window + 1)-th fails with Exceeded.
C1_NthWithinWindow ==
    config.enabled =>
        \A key \in Keys :
            LET L == KeyLog(key) IN
            \A a \in 1..Len(L) : \A i \in a..Len(L) :
                (FreshAt(L, a) /\ OneWindow(L, a, i)) =>
                    /\ (i - a + 1 <= config.max_requests_per_window) => L[i].res = Ok
                    /\ (i - a + 1 = config.max_requests_per_window + 1)
                           => L[i].res.tag = "Exceeded"

\* the same, for windows that open after the first second of the epoch
NthWithinWindowAfterEpoch ==
    config.enabled =>
        \A key \in Keys :
            LET L == KeyLog(key) IN
            \A a \in 1..Len(L) : \A i \in a..Len(L) :
                (FreshAt(L, a) /\ OneWindow(L, a, i) /\ L[a].now >= 1) =>
                    /\ (i - a + 1 <= config.max_requests_per_window) => L[i].res = Ok
                    /\ (i - a + 1 = config.max_requests_per_window + 1)
                           => L[i].res.tag = "Exceeded"

\* max_requests_per_window + k requests within one window: exactly
\* max_requests_per_window of them succeeded
ExactlyMaxSuccesses ==
    config.enabled =>
        \A key \in Keys :
            LET L == KeyLog(key) IN
            \A a \in 1..Len(L) : \A i \in a..Len(L) :
                (FreshAt(L, a) /\ OneWindow(L, a, i)
                    /\ i - a + 1 >= config.max_requests_per_window)
                    => Successes(L, a, i) = config.max_requests_per_window

\* the same, for windows that open after the first second of the epoch
ExactlyMaxSuccessesAfterEpoch ==
    config.enabled =>
        \A key \in Keys :
            LET L == KeyLog(key) IN
            \A a \in 1..Len(L) : \A i \in a..Len(L) :
                (FreshAt(L, a) /\ OneWindow(L, a, i) /\ L[a].now >= 1
                    /\ i - a + 1 >= config.max_requests_per_window)
                    => Successes(L, a, i) = config.max_requests_per_window

\* C2: a rejected check_rate_limit appends no timestamp to the key's list, so
\* max_requests_per_window + k requests (k >= 0) on one key within one window
\* yield exactly max_requests_per_window successes.
C2_RejectedNotCounted ==
    [][ /\ (log' # log /\ last'.res.tag = "Exceeded")
            => Len(attempts'[last'.key]) <= Len(entry(attempts, last'.key))
        /\ ExactlyMaxSuccesses' ]_vars

\* C3: for every start time t, max_requests_per_window requests at time t all
\* succeed, one more at the same time t fails with Exceeded, and a request at
\* any time later than t + rate_window_secs succeeds again.
C3_Sliding ==
    config.enabled =>
        \A key \in Keys :
            LET L == KeyLog(key) IN
            \A a \in 1..Len(L) : \A i \in a..Len(L) :
                FreshAt(L, a) =>
                    /\ (L[i].now = L[a].now /\ i - a + 1 <= config.max_requests_per_window)
                           => L[i].res = Ok
                    /\ (L[i].now = L[a].now /\ i - a = config.max_requests_per_window)
                           => L[i].res.tag = "Exceeded"
                    /\ (/\ i - a >= config.max_requests_per_window + 1
                        /\ L[i - 1].now = L[a].now
                        /\ L[i].now > L[a].now + config.rate_window_secs)
                           => L[i].res = Ok

(* ================= properties of the concurrent callers =============== *)
\* the callers whose call on key has returned
Returned_on(key) == {w \in Workers : pc[w] = "done" /\ wkey[w] = key}

\* the callers of the set read clock values that lie within one window
SameWindow(ws) == \A v \in ws : \A w \in ws : wnow[w] - wnow[v] < config.rate_window_secs

Admitted(ws) == Cardinality({w \in ws : wres[w] = Ok})

Min(a, b) == IF a <= b THEN a ELSE b

\* C4: N callers concurrently invoke check_rate_limit on one key of a shared
\* limiter within one window while the key's budget is M: in every
\* interleaving exactly M succeed when M <= N (and all N when N < M).
C4_ExactAdmission ==
    (config.enabled /\ \A w \in Workers : pc[w] = "done") =>
        \A key \in Keys :
            SameWindow(Returned_on(key)) =>
                Admitted(Returned_on(key))
                    = Min(config.max_requests_per_window, Cardinality(Returned_on(key)))

\* the same, for callers that read a clock past the first second of the epoch
ExactAdmissionAfterEpoch ==
    (config.enabled /\ \A w \in Workers : pc[w] = "done") =>
        \A key \in Keys :
            (SameWindow(Returned_on(key)) /\ \A w \in Returned_on(key) : wnow[w] >= 1) =>
                Admitted(Returned_on(key))
                    = Min(config.max_requests_per_window, Cardinality(Returned_on(key)))

\* the same for t >= 1, rate_window_secs >= 1 and max_requests_per_window >= 1
SlidingAfterEpoch ==
    (/\ config.enabled
     /\ config.rate_window_secs >= 1
     /\ config.max_requests_per_window >= 1) =>
        \A key \in Keys :
            LET L == KeyLog(key) IN
            \A a \in 1..Len(L) : \A i \in a..Len(L) :
                (FreshAt(L, a) /\ L[a].now >= 1) =>
                    /\ (L[i].now = L[a].now /\ i - a + 1 <= config.max_requests_per_window)
                           => L[i].res = Ok
                    /\ (L[i].now = L[a].now /\ i - a = config.max_requests_per_window)
                           => L[i].res.tag = "Exceeded"
                    /\ (/\ i - a >= config.max_requests_per_window + 1
                        /\ L[i - 1].now = L[a].now
                        /\ L[i].now > L[a].now + config.rate_window_secs)
                           => L[i].res = Ok

(* ======================= properties of both limiters ================== *)
\* this step is a check that returned
IsCheck == clock' = clock /\ last'.op \in {"check_rate_limit", "check_login_attempt"}

\* the timestamp lists a record can hold at the current clock value
Histories == UNION {[1..n -> 0..clock] : n \in 0..MaxLimit}

\* the lockout deadlines a record can hold
Deadlines == {None} \cup {Some(d) : d \in 0..(MaxTime + MaxLockout)}

\* a disabled check returns Ok and the map it was given, whatever the key's
\* or the identifier's record holds
DisabledIgnoresHistory ==
    ~config.enabled =>
        \A key \in Keys :
            /\ \A list \in Histories :
                   LET m == Put(attempts, key, list) IN
                   check_rate_limit(m, key, clock) = [map |-> m, res |-> Ok]
            /\ \A list \in Histories : \A until \in Deadlines :
                   LET m == Put(login_attempts, key,
                                [attempts |-> list, locked_until |-> until]) IN
                   check_login_attempt(m, key, clock) = [map |-> m, res |-> Ok]

\* C5: with enabled = false every check_rate_limit and every
\* check_login_attempt returns Ok whatever the stored history (a key at its
\* limit, an identifier with an active lockout), and leaves the limiter's map
\* exactly as it was.
C5_DisabledChecksDoNothing ==
    /\ []DisabledIgnoresHistory
    /\ [][ (~config.enabled /\ IsCheck) =>
               /\ last'.res = Ok
               /\ attempts' = attempts
               /\ login_attempts' = login_attempts ]_vars

\* a disabled login limiter admitted an identifier whose record holds as many
\* failures as the lockout needs
C5_Witness ==
    /\ ~config.enabled
    /\ config.max_login_attempts >= 1
    /\ last.op = "check_login_attempt"
    /\ last.res = Ok
    /\ last.key \in DOMAIN login_attempts
    /\ Len(login_attempts[last.key].attempts) >= config.max_login_attempts

\* C10: cleanup is idempotent for both limiters: from any reachable state,
\* running it twice at the same clock value leaves the map that running it
\* once leaves.
C10_SweepIdempotent ==
    /\ cleanup(cleanup(attempts, clock), clock) = cleanup(attempts, clock)
    /\ login_cleanup(login_cleanup(login_attempts, clock), clock)
           = login_cleanup(login_attempts, clock)

\* a login cleanup has run and kept a record whose lockout has passed
C10_Witness ==
    /\ last.op = "login_cleanup"
    /\ \E id \in DOMAIN login_attempts :
           /\ HasDeadline(login_attempts, id)
           /\ ~IsLocked(login_attempts, id, clock)

(* ======================= properties of the login limiter ============== *)
\* this step is a check_login_attempt on id that returned
IsLoginCheck(id) ==
    clock' = clock /\ last'.op = "check_login_attempt" /\ last'.key = id

\* how many of the times lie within the window that ends now
InWindow(times, now) ==
    Cardinality({i \in 1..Len(times) : now - times[i] < config.rate_window_secs})

\* C6: for an identifier that is not locked, after max_login_attempts
\* record_failed_attempt calls made within one window, the next
\* check_login_attempt made within that window fails with AccountLocked.
C6_LockAfterMaxFailures ==
    [][ \A id \in Keys :
            (/\ config.enabled
             /\ IsLoginCheck(id)
             /\ ~HasDeadline(login_attempts, id)
             /\ InWindow(fails[id], clock) >= config.max_login_attempts)
                => last'.res.tag = "AccountLocked" ]_vars

\* the same, for failures recorded after the first second of the epoch
LockAfterMaxFailuresAfterEpoch ==
    [][ \A id \in Keys :
            (/\ config.enabled
             /\ IsLoginCheck(id)
             /\ ~HasDeadline(login_attempts, id)
             /\ \A i \in 1..Len(fails[id]) : fails[id][i] >= 1
             /\ InWindow(fails[id], clock) >= config.max_login_attempts)
                => last'.res.tag = "AccountLocked" ]_vars

\* the check finds a lockout deadline that has passed
IsExpiryCheck(id) ==
    /\ IsLoginCheck(id)
    /\ HasDeadline(login_attempts, id)
    /\ clock >= Unwrap(login_attempts[id].locked_until)

\* the first check at or after the deadline succeeds and leaves no lockout and
\* no attempts
ExpiryClears(id) ==
    IsExpiryCheck(id) =>
        /\ last'.res = Ok
        /\ login_attempts'[id] = [attempts |-> << >>, locked_until |-> None]

\* after that, a check locks the identifier exactly when max_login_attempts
\* new failures lie within the window
RelockNeedsMax(id) ==
    (IsLoginCheck(id) /\ id \in expired /\ ~HasDeadline(login_attempts, id)) =>
        (last'.res.tag = "AccountLocked"
            <=> InWindow(fails[id], clock) >= config.max_login_attempts)

Record(m, id) == IF id \in DOMAIN m THEN Some(m[id]) ELSE None

\* C8: clear_attempts(id) removes the identifier's whole record, attempts and
\* lockout: after it, every later sequence of calls returns for id the same
\* results and reaches the same states as on a limiter that never saw id.
C8_ClearedIsUnseen ==
    \A id \in {x \in Keys : cleared[x] # "no"} :
        /\ Record(login_attempts, id) = Record(unseen, id)
        /\ (last.op = "check_login_attempt" /\ last.key = id) => last.res = unseen_res

\* an identifier that was locked and then cleared has been locked again
C8_Witness ==
    /\ last.op = "check_login_attempt"
    /\ cleared[last.key] = "locked"
    /\ last.res.tag = "AccountLocked"
    /\ config.max_login_attempts >= 1

\* C9: cleanup never changes what checks return: every check returns what it
\* returns on a limiter given the same calls and never swept.
C9_SweepInvisible ==
    last.op \in {"check_rate_limit", "check_login_attempt"} => last.res = nosweep_res

\* the same, of the request limiter alone
SweepInvisibleToRequests ==
    last.op = "check_rate_limit" => last.res = nosweep_res

(* ========================= properties of the sweeps =================== *)
\* the step is a sweep of either limiter
IsSweep == clock' = clock /\ last'.op \in {"cleanup", "login_cleanup"}

\* the timestamps of the list that lie inside the window that ends at now,
\* by the arithmetic of the integers: t > now - rate_window_secs
Live(list, now) == SelectSeq(list, LAMBDA t : t > now - config.rate_window_secs)

\* the same, of the timestamps after the first second of the epoch
LiveAfterEpoch(list, now) ==
    SelectSeq(list, LAMBDA t : t >= 1 /\ t > now - config.rate_window_secs)

\* a sweep leaves every locked identifier's record as it was
SweepKeepsLocked ==
    [][IsSweep =>
        \A id \in DOMAIN login_attempts :
            IsLocked(login_attempts, id, clock) =>
                /\ id \in DOMAIN login_attempts'
                /\ login_attempts'[id] = login_attempts[id]]_vars

\* C11: a sweep leaves every locked identifier in the map with its attempts
\* and deadline unchanged, and a sweep of either limiter removes no timestamp
\* that is > now - rate_window_secs and no key or identifier that holds one.
C11_SweepKeepsLive ==
    [][IsSweep =>
        /\ \A id \in DOMAIN login_attempts :
               /\ IsLocked(login_attempts, id, clock) =>
                      /\ id \in DOMAIN login_attempts'
                      /\ login_attempts'[id] = login_attempts[id]
               /\ Live(login_attempts[id].attempts, clock) # << >> =>
                      /\ id \in DOMAIN login_attempts'
                      /\ Live(login_attempts'[id].attempts, clock)
                             = Live(login_attempts[id].attempts, clock)
        /\ \A key \in DOMAIN attempts :
               Live(attempts[key], clock) # << >> =>
                   /\ key \in DOMAIN attempts'
                   /\ Live(attempts'[key], clock) = Live(attempts[key], clock)]_vars

\* the same, of the timestamps after the first second of the epoch
SweepKeepsLiveAfterEpoch ==
    [][IsSweep =>
        /\ \A id \in DOMAIN login_attempts :
               LiveAfterEpoch(login_attempts[id].attempts, clock) # << >> =>
                   /\ id \in DOMAIN login_attempts'
                   /\ LiveAfterEpoch(login_attempts'[id].attempts, clock)
                          = LiveAfterEpoch(login_attempts[id].attempts, clock)
        /\ \A key \in DOMAIN attempts :
               LiveAfterEpoch(attempts[key], clock) # << >> =>
                   /\ key \in DOMAIN attempts'
                   /\ LiveAfterEpoch(attempts'[key], clock)
                          = LiveAfterEpoch(attempts[key], clock)]_vars

(* ================== invariants of the request limiter ================= *)
\* every timestamp of the list is > now - rate_window_secs
AllInWindow(list, now) ==
    \A i \in 1..Len(list) : list[i] > now - config.rate_window_secs

\* right after a check_rate_limit on a key the key's list, and right after a
\* cleanup every key's list, holds only timestamps > now - rate_window_secs
StoredInWindow ==
    /\ (log' # log) => AllInWindow(entry(attempts', last'.key), clock)
    /\ (clock' = clock /\ last'.op = "cleanup")
           => \A key \in DOMAIN attempts' : AllInWindow(attempts'[key], clock)

\* C12 as stated: for every configuration, rate_window_secs = 0 included, right
\* after any check_rate_limit on a key or any cleanup every timestamp stored
\* for that key is > now - rate_window_secs.
C12_StoredInWindowAsStated == [][StoredInWindow]_vars

\* C12: the same for rate_window_secs >= 1, clock values smaller than
\* rate_window_secs included; with rate_window_secs = 0 a check that succeeds
\* leaves the timestamp now, which is now - rate_window_secs.
C12_StoredInWindow == [][config.rate_window_secs >= 1 => StoredInWindow]_vars

\* a cleanup made while the clock is below the window, and a cleanup that
\* pruned a stale timestamp of a key and left a live one
C12_Witness ==
    /\ config.rate_window_secs >= 1
    /\ last.op = "cleanup"
    /\ \/ clock < config.rate_window_secs /\ attempts # EmptyMap
       \/ \E key \in DOMAIN attempts :
             \E i \in 1..Len(log) :
                /\ log[i].key = key /\ log[i].res = Ok
                /\ log[i].now + config.rate_window_secs <= clock

(* ======================= properties of a lockout ====================== *)
\* the step is a call of the login limiter other than clear_attempts(id)
KeepsRecord(id) ==
    /\ clock' = clock
    /\ last'.op \in {"check_login_attempt", "record_failed_attempt",
                     "clear_attempts", "login_cleanup"}
    /\ ~(last'.op = "clear_attempts" /\ last'.key = id)

\* C13: while an identifier is locked (locked_until = d, now < d) every
\* check_login_attempt on it fails with AccountLocked(d), and no
\* check_login_attempt, record_failed_attempt or cleanup changes d; only
\* clear_attempts removes the lockout.
C13_LockoutFixed ==
    [][\A id \in Keys :
          IsLocked(login_attempts, id, clock) =>
              LET d == Unwrap(login_attempts[id].locked_until) IN
              /\ IsLoginCheck(id) => last'.res = AccountLocked(d)
              /\ KeepsRecord(id) =>
                     /\ id \in DOMAIN login_attempts'
                     /\ login_attempts'[id].locked_until = Some(d)
              /\ (clock' = clock /\ last'.op = "clear_attempts" /\ last'.key = id)
                     => id \notin DOMAIN login_attempts']_vars

\* a check made during a lockout, on an identifier that had a failure
\* recorded later than the check that locked it
C13_Witness ==
    /\ last.op = "check_login_attempt"
    /\ last.res.tag = "AccountLocked"
    /\ config.max_login_attempts >= 1
    /\ IsLocked(login_attempts, last.key, clock)
    /\ LET info == login_attempts[last.key] IN
       \E i \in 1..Len(info.attempts) :
           info.attempts[i] + config.lockout_duration_secs > Unwrap(info.locked_until)

\* C14 as stated: while an identifier is locked, its attempts are left
\* unchanged by every check_login_attempt, record_failed_attempt and cleanup.
C14_FrozenAsStated ==
    [][\A id \in Keys :
          (IsLocked(login_attempts, id, clock) /\ KeepsRecord(id))
              => /\ id \in DOMAIN login_attempts'
                 /\ login_attempts'[id].attempts = login_attempts[id].attempts]_vars

\* C14: while an identifier is locked, its attempts are left unchanged by
\* every check_login_attempt and cleanup, and by every record_failed_attempt
\* on another identifier; a record_failed_attempt on it appends now.
C14_Frozen ==
    [][\A id \in Keys :
          (IsLocked(login_attempts, id, clock) /\ KeepsRecord(id))
              => /\ id \in DOMAIN login_attempts'
                 /\ login_attempts'[id].attempts =
                        IF last'.op = "record_failed_attempt" /\ last'.key = id
                        THEN Append(login_attempts[id].attempts, clock)
                        ELSE login_attempts[id].attempts]_vars

\* a cleanup has passed over a locked identifier that holds an attempt which
\* had left the window when a later one was recorded
C14_Witness ==
    /\ last.op = "login_cleanup"
    /\ config.rate_window_secs >= 1
    /\ \E id \in DOMAIN login_attempts :
          /\ IsLocked(login_attempts, id, clock)
          /\ LET list == login_attempts[id].attempts IN
             \E i \in 1..Len(list) : \E j \in 1..Len(list) :
                list[i] + config.rate_window_secs <= list[j]

(* ================== the transition from open to locked ================ *)
\* the attempts the check counts: none of them once a lockout has expired
Counted(m, id) == IF HasDeadline(m, id) THEN << >> ELSE login_entry(m, id).attempts

\* what the check does when it counts n attempts inside the window
LocksOrAdmits(id, n) ==
    IF n >= config.max_login_attempts
    THEN /\ login_attempts'[id].locked_until = Some(clock + config.lockout_duration_secs)
         /\ last'.res = AccountLocked(clock + config.lockout_duration_secs)
    ELSE /\ login_attempts'[id].locked_until = None
         /\ last'.res = Ok

\* C15: a check_login_attempt at time now on an identifier that is not locked
\* counts the attempts that are > now - rate_window_secs; when they are
\* max_login_attempts or more it sets locked_until to now +
\* lockout_duration_secs and fails with AccountLocked of that value, otherwise
\* it succeeds and locked_until stays None.
C15_OpenToLocked ==
    [][\A id \in Keys :
          (config.enabled /\ IsLoginCheck(id) /\ ~IsLocked(login_attempts, id, clock))
              => LocksOrAdmits(id, Len(Live(Counted(login_attempts, id), clock)))]_vars

\* the same, counting the attempts after the first second of the epoch
OpenToLockedAfterEpoch ==
    [][\A id \in Keys :
          (config.enabled /\ IsLoginCheck(id) /\ ~IsLocked(login_attempts, id, clock))
              => LocksOrAdmits(id, Len(LiveAfterEpoch(Counted(login_attempts, id), clock)))]_vars

(* ==================== the check as a permission check ================= *)
\* list a is list b with some of its elements left out
RECURSIVE IsSubSeq(_, _)
IsSubSeq(a, b) ==
    IF a = << >> THEN TRUE
    ELSE IF b = << >> THEN FALSE
    ELSE IF Head(a) = Head(b) THEN IsSubSeq(Tail(a), Tail(b))
    ELSE IsSubSeq(a, Tail(b))

\* the check has put a lockout on an identifier that was not locked
NewlyLocked(id) ==
    /\ IsLoginCheck(id)
    /\ ~IsLocked(login_attempts, id, clock)
    /\ last'.res.tag = "AccountLocked"

\* C16: check_login_attempt never appends a timestamp to an identifier's
\* attempts, it only prunes or clears them; so with max_login_attempts >= 1
\* no check_login_attempt locks an identifier unless a failure was recorded
\* for it since the last check_login_attempt on it.
C16_CheckRecordsNothing ==
    [][\A id \in Keys :
          /\ IsLoginCheck(id) =>
                 \A x \in DOMAIN login_attempts' :
                     IsSubSeq(login_attempts'[x].attempts,
                              login_entry(login_attempts, x).attempts)
          /\ (config.max_login_attempts >= 1 /\ NewlyLocked(id)) => id \in recorded]_vars

\* a check has admitted an identifier that has a failure on record, and has
\* left the failure where it was
C16_Witness ==
    /\ config.max_login_attempts >= 2
    /\ last.op = "check_login_attempt"
    /\ last.res = Ok
    /\ last.key \in DOMAIN login_attempts
    /\ login_attempts[last.key].attempts # << >>
    /\ last.key \notin recorded

(* ================= properties of the concurrent logins ================ *)
\* the callers check_login_attempt(id) has admitted
AdmittedOn(id) ==
    {w \in Workers : pc[w] \in {"verify", "done"} /\ wkey[w] = id /\ wres[w] = Ok}

\* C17: when more than max_login_attempts callers concurrently each run
\* check_login_attempt(id), verify the credentials outside the lock and
\* record_failed_attempt(id), in no interleaving does check_login_attempt
\* admit more than max_login_attempts of them within one window.
C17_FloodBounded ==
    config.enabled =>
        \A id \in Keys : \A ws \in SUBSET AdmittedOn(id) :
            SameWindow(ws) => Cardinality(ws) <= config.max_login_attempts

\* the same, for callers that read a clock past the first second of the epoch
FloodBoundedAfterEpoch ==
    config.enabled =>
        \A id \in Keys : \A ws \in SUBSET AdmittedOn(id) :
            (SameWindow(ws) /\ \A w \in ws : wnow[w] >= 1)
                => Cardinality(ws) <= config.max_login_attempts

\* what the check does bound: a caller is admitted only while the failures
\* already recorded inside the window are fewer than max_login_attempts; the
\* admitted callers that have yet to record theirs are not counted
FloodBoundedByRecorded ==
    [][\A w \in Workers : \A id \in Keys :
          (config.enabled /\ pc[w] = "idle" /\ pc'[w] = "verify" /\ wkey'[w] = id)
              => Len(LiveAfterEpoch(Counted(login_attempts, id), clock))
                     < config.max_login_attempts]_vars

(* ==================== the always-rejecting policy ===================== *)
\* C18: with enabled = true and max_requests_per_window = 0 every
\* check_rate_limit on every key at every time returns Exceeded and records no
\* timestamp: the key's list stays empty.
C18_ZeroRejectsAll ==
    (component = "RateLimiter" /\ config.enabled /\ config.max_requests_per_window = 0) =>
        /\ \A i \in 1..Len(log) :
               log[i].res = Exceeded(0, config.rate_window_secs)
        /\ \A key \in DOMAIN attempts : attempts[key] = << >>

\* both keys have been checked, one of them at two times
C18_Witness ==
    /\ config.enabled
    /\ config.max_requests_per_window = 0
    /\ DOMAIN attempts = Keys
    /\ \E i \in 1..Len(log) : \E j \in 1..Len(log) :
          log[i].key = log[j].key /\ log[i].now < log[j].now

(* =============== the sliding-window bound over histories ============== *)
\* the check_rate_limit calls on key that succeeded at a time in (T - rate_window_secs, T]
SucceededIn(key, T) ==
    {i \in 1..Len(log) :
        /\ log[i].key = key /\ log[i].res = Ok
        /\ log[i].now > T - config.rate_window_secs /\ log[i].now <= T}

\* no key's stored list holds more than max_requests_per_window timestamps
StoredAtMostMax ==
    \A key \in DOMAIN attempts : Len(attempts[key]) <= config.max_requests_per_window

\* C19: under any interleaving of check_rate_limit and cleanup calls, for
\* every key and every time T at most max_requests_per_window
\* check_rate_limit calls on the key succeeded at times in
\* (T - rate_window_secs, T], and the key's stored list never holds more than
\* max_requests_per_window timestamps.
C19_WindowBound ==
    config.enabled =>
        /\ \A key \in Keys : \A T \in 0..MaxTime :
               Cardinality(SucceededIn(key, T)) <= config.max_requests_per_window
        /\ StoredAtMostMax

\* the same, of the calls made after the first second of the epoch
WindowBoundAfterEpoch ==
    config.enabled =>
        \A key \in Keys : \A T \in 0..MaxTime :
            Cardinality({i \in SucceededIn(key, T) : log[i].now >= 1})
                <= config.max_requests_per_window

(* ============================ eviction ================================ *)
\* C20: if the clock keeps advancing and the sweeps keep being invoked, every
\* key and every identifier that receives no further check or failure record
\* is eventually removed from its map, an identifier that was locked included.
C20_EventuallyEvicted ==
    \A key \in Keys :
        /\ (Quiet /\ key \in DOMAIN attempts) ~> (key \notin DOMAIN attempts)
        /\ (Quiet /\ key \in DOMAIN login_attempts) ~> (key \notin DOMAIN login_attempts)

\* the calls have stopped and the swept map is empty, where the same calls
\* without the sweeps have left a record with a lockout and recorded failures
C20_Witness ==
    /\ component = "LoginRateLimiter"
    /\ Quiet
    /\ login_attempts = EmptyMap
    /\ \E id \in DOMAIN nosweep :
          /\ HasDeadline(nosweep, id)
          /\ nosweep[id].attempts # << >>
          /\ config.lockout_duration_secs >= 1
====
